---- MODULE Spec2Model ----
(***************************************************************************)
(* The extraction orchestrator of Atlas-v3:                                *)
(* services/extraction_service.py, ExtractionService.extract_schematic,    *)
(* with the parts of models.py and services/gemini_service.py it uses.     *)
(*                                                                         *)
(* extract_schematic is a Python generator.  Calling it runs nothing; each *)
(* request of the consumer (next) runs the body up to the next yield.  One *)
(* action of the model is one such segment, together with every store      *)
(* write and commit the segment makes.                                     *)
(*                                                                         *)
(* The model covers one service instance and one document, with one live   *)
(* generator at a time (routes.py:256 builds a service per stream).        *)
(*                                                                         *)
(* SchematicPage(...) at extraction_service.py:181 is called with keywords *)
(* the class of models.py:112 does not have, and raises (see               *)
(* SchematicPageRaises).  Every list with a position therefore ends in the *)
(* handler of line 302 before the page loop of line 215; the loop body and *)
(* _extract_page are unreachable and have no action here.  The invariant   *)
(* PageLoopNotEntered states this and is checked with the model.           *)
(*                                                                         *)
(* Further specifications take a component on its own, over inputs drawn   *)
(* from bounded sets:                                                      *)
(*   AdapterSpec       GeminiService.extract_page, detect_all_page_numbers *)
(*   BackoffSpec       GeminiService.extract_page, _calculate_backoff      *)
(*   RegistrationSpec  GeminiService.upload_file, clear_cache              *)
(*   FairUploadSpec    GeminiService.upload_file, one remote call a step   *)
(*   ResolverSpec      ExtractionService.resolve_component_references      *)
(*   ValidationSpec    ValidationService.validate_page, validate_full_file *)
(*   ConfidenceSpec    ValidationService.validate_page, expected counts    *)
(* Each leaves the variables of the others as they are after construction. *)
(*                                                                         *)
(* RouteSpec takes the HTTP routes of routes.py on the document: stream    *)
(* requests served side by side, each with a service of its own, and       *)
(* cancel requests.  FairRouteSpec adds that no stream stays suspended.    *)
(***************************************************************************)
EXTENDS Integers, Sequences, FiniteSets, TLC

\* ---------------------------------------------------------------- bounds
\* Number of pages of the PDF: positions 0..PdfPageCount-1 exist.
PdfPageCount == 2
\* Longest caller-supplied position list.
MaxPages == 2
\* Number of extract_schematic invocations on the service instance.
MaxRuns == 2

\* Most Component rows, and most Connection rows, of a resolved document.
MaxComponents == 2
MaxConnections == 1
\* Runs of resolve_component_references on the document.
MaxResolverRuns == 2

\* Most Component rows, and most Connection rows, of a validated document.
MaxValidatedComponents == 2
MaxValidatedConnections == 1
\* Width and height of the page whose dimensions are stored.
PageWidth == 2
PageHeight == 3
\* Largest expected count a caller of validate_page supplies.
MaxExpected == 1

\* Upload requests after which no further registration is started.
MaxUploadRequests == 3

\* Most items in the "pages" list of a detection response.
MaxItems == 1

\* The largest attempt index _calculate_backoff is called with.
MaxAttempt == 5

\* Stream requests (GET /extract/<id>/stream) and cancel requests
\* (POST /extract/<id>/cancel) that reach the routes for the document.
MaxStreams == 2
MaxCancelRequests == 2

\* Config.GEMINI_MAX_RETRIES, the default (config.py:40).
GEMINI_MAX_RETRIES == 3

\* Positions a caller may pass: every page of the PDF and one beyond it.
Positions == 0..PdfPageCount

RECURSIVE SeqsUpTo(_, _)
SeqsUpTo(S, n) ==
    IF n = 0 THEN {<<>>}
    ELSE LET shorter == SeqsUpTo(S, n - 1)
         IN  shorter \cup {Append(s, x) : s \in {t \in shorter : Len(t) = n - 1}, x \in S}

\* The position lists of the model (pdf_page_indices), duplicates included.
PageLists == SeqsUpTo(Positions, MaxPages)

\* Python's None in a field that otherwise holds a number.
Null == -1

\* ------------------------------------------------------- models.py
\* ExtractionStatus (models.py:36-42).
ExtractionStatus ==
    {"pending", "in_progress", "completed", "failed", "partial", "cancelled"}

\* The attributes of the mapped class SchematicPage (models.py:116-133):
\* its columns and its relationship.
SchematicPageAttrs ==
    {"id", "schematic_file_id", "pdf_page_index", "schematic_page_number",
     "width", "height", "detection_confidence", "is_processed", "detected_at",
     "schematic_file"}

\* The keyword arguments extract_schematic passes to SchematicPage(...)
\* (extraction_service.py:181-192).
SchematicPageKwargs ==
    {"schematic_file_id", "pdf_page_index", "schematic_page_number",
     "schematic_total", "dwg_no", "drawing_title", "width", "height",
     "detection_confidence", "is_processed"}

\* SchematicPage has no __init__ of its own, so it is built by the
\* constructor of declarative_base() (models.py:60), which raises TypeError
\* for a keyword that is no attribute of the class.
SchematicPageRaises == SchematicPageKwargs \ SchematicPageAttrs # {}

\* ------------------------------------------------------------------ state
VARIABLES
    pc,                     \* where the generator is suspended
    pdf_page_indices,       \* the argument of the current invocation
    extraction_status,      \* SchematicFile.extraction_status, as committed
    total_pages_processed,  \* SchematicFile.total_pages_processed, as committed
    gemini_file_uri,        \* SchematicFile.gemini_file_uri is set (committed)
    store,                  \* committed rows of the document, per table
    seq_counter,            \* ExtractionService._seq_counter
    cancelled,              \* ExtractionService._cancelled
    events,                 \* the events handed to the consumer, this invocation
    raised,                 \* the generator ended by raising to its caller
    fault,                  \* history: what raised in the pipeline scope
    detection,              \* history: how detect_all_page_numbers ended
    cancel_at,              \* history: where the generator was when cancel() set the flag;
                            \* "lost" once line 113 cleared a flag set since the call
    writes,                 \* history: status values written, this invocation
    before,                 \* history: the status found by this invocation
    runs,                   \* history: invocations so far
    max_retries,            \* GeminiService.max_retries
    file_cache,             \* GeminiService._file_cache: path -> handle, Null when absent
    upload_requests,        \* history: upload requests sent to the remote service
    registered,             \* history: path -> the first handle upload_file returned for it
    call,                   \* history: the last call of an adapter method
    components,             \* Component rows of a document, in store iteration order
    connections,            \* Connection rows of the document
    resolver_runs,          \* history: runs of resolve_component_references
    ids_before,             \* history: the connections as the run before left them
    document,               \* the rows of a document that ValidationService reads
    validation,             \* the last ValidationResult row, with the call that made it
    calls,                  \* history: the adapter calls of this invocation, in order
    streams,                \* per stream request: where generate() is, what it sent
    cancel_requests,        \* history: cancel requests answered
    cancelled_over,         \* history: the streams that were running when a cancel was answered
    foreign                 \* the Component and Connection rows of another document

\* The state of the orchestrator and of its document.
service_vars == <<pc, pdf_page_indices, extraction_status, total_pages_processed,
                  gemini_file_uri, store, seq_counter, cancelled, events, raised,
                  fault, detection, cancel_at, writes, before, runs, calls>>

\* The state of a recognition adapter used on its own.
adapter_vars == <<max_retries, file_cache, upload_requests, registered, call>>

\* The rows resolve_component_references reads and writes.
resolver_vars == <<components, connections, resolver_runs, ids_before, foreign>>

\* The rows ValidationService reads and the result it writes.
validation_vars == <<document, validation>>

\* The requests of the HTTP routes on the document (routes.py).
route_vars == <<streams, cancel_requests, cancelled_over>>

\* What no step of extract_schematic touches in this model.
outside_service == <<adapter_vars, resolver_vars, validation_vars, route_vars>>

\* What no method of the adapter touches.
outside_adapter == <<service_vars, resolver_vars, validation_vars, route_vars>>

\* What the resolver does not touch.
outside_resolver == <<service_vars, adapter_vars, validation_vars, route_vars>>

\* What the validation service does not touch.
outside_validation == <<service_vars, adapter_vars, resolver_vars, route_vars>>

vars == <<service_vars, adapter_vars, resolver_vars, validation_vars, route_vars>>

Tables == {"pages", "components", "connections", "wire_labels",
           "continuations", "errors"}

\* Generator positions: the yields of extract_schematic.
Suspended == {"starting", "uploading", "detecting", "mapped", "complete", "error"}

\* After construction (extraction_service.py:86-89) and upload of the
\* document (models.py:91,94: status pending, counter 0, no rows).
ServiceInit ==
    /\ pc = "idle"
    /\ pdf_page_indices = <<>>
    /\ extraction_status = "pending"
    /\ total_pages_processed = 0
    /\ gemini_file_uri = FALSE
    /\ store = [t \in Tables |-> <<>>]
    /\ seq_counter = 0
    /\ cancelled = FALSE
    /\ events = <<>>
    /\ raised = FALSE
    /\ fault = "none"
    /\ detection = "not_called"
    /\ cancel_at = "never"
    /\ writes = <<>>
    /\ before = "pending"
    /\ runs = 0
    /\ calls = <<>>

\* The local paths of the documents an adapter is asked to register.
Paths == {"a.pdf", "b.pdf"}

\* The record of an adapter call: the method, its arguments, what the remote
\* service did (lookup: the genai.get_file of the handle; script: the
\* outcome of each request, in order), and how the call ended.
NoCall ==
    [op |-> "none", path |-> "", exists |-> TRUE, indices |-> <<>>,
     lookup |-> "ok", script |-> <<>>, cache_before |-> [p \in Paths |-> Null],
     registered_before |-> Null,
     attempts |-> 0, raised |-> FALSE, failure |-> "none",
     handle |-> Null, mapping |-> <<>>, response |-> <<>>,
     attempt |-> Null, slept |-> <<>>, delays |-> <<>>,
     at |-> "none", state |-> "none"]

\* GeminiService.__init__ (gemini_service.py:126-128): the configured
\* number of attempts and an empty cache.
AdapterConstructed(retries) ==
    /\ max_retries = retries
    /\ file_cache = [p \in Paths |-> Null]
    /\ upload_requests = 0
    /\ registered = [p \in Paths |-> Null]
    /\ call = NoCall

\* A document without component and connection rows.
NoRows ==
    /\ components = <<>>
    /\ connections = <<>>
    /\ resolver_runs = 0
    /\ ids_before = <<>>
    /\ foreign = [components |-> <<>>, connections |-> <<>>]

\* Python's None in a field that can hold any number: <<>> is None, <<v>>
\* the number v.
None == <<>>
Some(v) == <<v>>

\* A document of which no row is read for validation, and no result.
NoDocument ==
    [page |-> [present |-> FALSE, width |-> None, height |-> None],
     components |-> <<>>, connections |-> <<>>, unlabelled |-> 0]

NoValidation ==
    [op |-> "none", idx |-> Null, discrepancies |-> <<>>, status |-> "none",
     expected |-> None, confidence |-> None]

NotValidated ==
    /\ document = NoDocument
    /\ validation = NoValidation

\* The stream requests the model follows, and the pages every one of them
\* passes to extract_schematic (Config.MVP_PDF_PAGES, config.py:48;
\* routes.py:260).
Requests == 1..MaxStreams

MVP_PDF_PAGES == <<6, 7, 8>>

\* A stream request of which nothing has run.
NoStream == [pc |-> "idle", loaded |-> "none", sent |-> <<>>]

\* No request has reached the routes.
NoRequests ==
    /\ streams = [r \in Requests |-> NoStream]
    /\ cancel_requests = 0
    /\ cancelled_over = {}

\* The service and its adapter (extraction_service.py:86-89) after
\* construction, under the default configuration.
Init ==
    /\ ServiceInit
    /\ NoRequests
    /\ AdapterConstructed(GEMINI_MAX_RETRIES)
    /\ NoRows
    /\ NotValidated

\* ------------------------------------------------------------------ _emit
\* ExtractionService._emit (extraction_service.py:421-434): the counter is
\* incremented, then read into the event.
EmitSeq(counter) == counter + 1

Event(type, counter, data) == [type |-> type, seq |-> EmitSeq(counter), data |-> data]

Emit(type, data) ==
    /\ seq_counter' = EmitSeq(seq_counter)
    /\ events' = Append(events, Event(type, seq_counter, data))

\* ------------------------------------------------- the recognition adapter
\* A metadata entry of the page mapping.  present = FALSE is Python's None
\* (gemini_service.py:442); num is schematic_page_number, conf the
\* confidence in tenths (8 is 0.8); Null is a null field.
NoneMeta == [present |-> FALSE, num |-> Null, conf |-> Null]

\* The all-null entry (gemini_service.py:427-434, extraction_service.py:167-174).
NullMeta == [present |-> TRUE, num |-> Null, conf |-> Null]

\* Entries the model of the recognition service can return: nothing read,
\* a page number with and without a confidence, the page number 0, and a
\* confidence of 0.0 without a page number.
DetectedMetas ==
    {NullMeta,
     [present |-> TRUE, num |-> 3, conf |-> Null],
     [present |-> TRUE, num |-> 3, conf |-> 8],
     [present |-> TRUE, num |-> 0, conf |-> Null],
     [present |-> TRUE, num |-> Null, conf |-> 0]}

\* dict keys: the distinct positions of a list, in order of first occurrence.
RECURSIVE Keys(_)
Keys(s) ==
    IF s = <<>> THEN <<>>
    ELSE LET front == Keys(SubSeq(s, 1, Len(s) - 1))
             last == s[Len(s)]
         IN  IF \E i \in 1..Len(front) : front[i] = last
             THEN front ELSE Append(front, last)

\* How a call of detect_all_page_numbers can end: with no position it
\* returns at once (gemini_service.py:298-299).
DetectOutcomes(indices) ==
    IF indices = <<>> THEN {"ok"} ELSE {"raises", "swallowed", "ok"}

\* GeminiService.detect_all_page_numbers (gemini_service.py:298-442) as
\* seen by its caller.  outcome "raises": the file lookup of line 331,
\* outside the try, raised; "swallowed": the except of lines 439-442
\* returned None for every position; "ok": lines 425-437, an entry for
\* every requested position, metas[i] for the i-th key.
\* The result is the mapping as a sequence of <<position, entry>>.
DetectAllPageNumbers(indices, outcome, metas) ==
    LET keys == Keys(indices)
    IN  IF indices = <<>> THEN <<>>
        ELSE IF outcome = "swallowed"
             THEN [i \in 1..Len(keys) |-> <<keys[i], NoneMeta>>]
             ELSE [i \in 1..Len(keys) |-> <<keys[i], metas[i]>>]

\* The fallback of extract_schematic when the adapter raises
\* (extraction_service.py:163-175).
FallbackMapping(indices) ==
    LET keys == Keys(indices)
    IN  [i \in 1..Len(keys) |-> <<keys[i], NullMeta>>]

\* meta.get("schematic_page_number") if meta else None
\* (extraction_service.py:179).
SchematicNum(meta) == IF meta.present THEN meta.num ELSE Null

\* detection_confidence (extraction_service.py:190), in tenths:
\* the detected confidence when there is one, else 1.0 when a page number
\* was detected (a number that is truthy: not 0), else 0.5.
DetectionConfidence(meta) ==
    IF meta.present /\ meta.conf # Null THEN meta.conf
    ELSE IF SchematicNum(meta) # Null /\ SchematicNum(meta) # 0 THEN 10 ELSE 5

\* The SchematicPage row built at extraction_service.py:181-192.
PageRow(idx, meta) ==
    [pdf_page_index |-> idx,
     schematic_page_number |-> SchematicNum(meta),
     detection_confidence |-> DetectionConfidence(meta),
     is_processed |-> FALSE]

\* PDFProcessor.get_page_dimensions (pdf_processor.py:80-98) indexes the
\* document and raises IndexError for a position beyond its last page.
DimensionsRaise(idx) == idx >= PdfPageCount

\* The first item of the mapping at which the loop of
\* extraction_service.py:178-193 raises, 0 when it raises at none.
FirstRaising(mapping) ==
    LET bad == {i \in 1..Len(mapping) :
                   DimensionsRaise(mapping[i][1]) \/ SchematicPageRaises}
    IN  IF bad = {} THEN 0 ELSE CHOOSE i \in bad : \A j \in bad : i <= j

\* What raised at that item: the dimensions are read first (line 180), the
\* row is built after (line 181).
RaisedAt(mapping, i) ==
    IF DimensionsRaise(mapping[i][1]) THEN "dimensions" ELSE "page_row"

\* The payload of the page_mapping event (extraction_service.py:197-207).
MappingPayload(mapping) ==
    [i \in 1..Len(mapping) |->
        [pdf_page_index |-> mapping[i][1],
         schematic_page_number |-> SchematicNum(mapping[i][2])]]

\* ---------------------------------------------------------------- actions
\* cancel() (extraction_service.py:91-93).
Cancel ==
    /\ cancelled' = TRUE
    /\ cancel_at' = IF cancelled THEN cancel_at ELSE pc
    /\ UNCHANGED <<pc, pdf_page_indices, extraction_status, total_pages_processed,
                   gemini_file_uri, store, seq_counter, events, raised, fault,
                   detection, writes, before, runs>>
    /\ UNCHANGED calls
    /\ UNCHANGED outside_service

\* Mutant of GeneratorCall: the call runs the body up to its first yield.
EagerCall(status) == "in_progress"

\* extract_schematic has a yield in its body (extraction_service.py:95-133),
\* so the call returns a generator and leaves the status as it is.
GeneratorCall(status) == status

\* The caller calls extract_schematic(schematic_file, pl): a generator
\* object is made and no line of the body runs.  The history variables
\* start over for the new invocation.
Invoke ==
    /\ pc \in {"idle", "done", "closed"}
    /\ runs < MaxRuns
    /\ \E pl \in PageLists : pdf_page_indices' = pl
    /\ pc' = "created"
    /\ events' = <<>>
    /\ raised' = FALSE
    /\ fault' = "none"
    /\ detection' = "not_called"
    /\ writes' = <<>>
    /\ before' = extraction_status
    /\ runs' = runs + 1
    /\ calls' = <<>>
    /\ extraction_status' = GeneratorCall(extraction_status)
    /\ UNCHANGED <<total_pages_processed, gemini_file_uri,
                   store, seq_counter, cancelled, cancel_at>>
    /\ UNCHANGED outside_service

\* Mutant of ResetCounter: the counter of the earlier invocation is kept.
KeepCounter(counter) == counter

\* self._seq_counter = 0 (extraction_service.py:112).
ResetCounter(counter) == 0

\* First request of the consumer: extraction_service.py:112-133, up to the
\* yield of progress(starting).
Start ==
    /\ pc = "created"
    /\ cancelled' = FALSE
    /\ cancel_at' = IF cancelled /\ cancel_at = "created" THEN "lost" ELSE "never"
    /\ before' = extraction_status
    /\ extraction_status' = "in_progress"
    /\ writes' = Append(writes, "in_progress")
    /\ seq_counter' = EmitSeq(ResetCounter(seq_counter))
    /\ events' = Append(events, Event("progress", ResetCounter(seq_counter), "starting"))
    /\ pc' = "starting"
    /\ UNCHANGED <<pdf_page_indices, total_pages_processed, gemini_file_uri,
                   store, raised, fault, detection, runs>>
    /\ UNCHANGED calls
    /\ UNCHANGED outside_service

\* Mutant of FailureStatus: the handler leaves the status as it is.
KeepStatus(status) == status

\* schematic_file.extraction_status = ExtractionStatus.FAILED
\* (extraction_service.py:303).
FailureStatus(status) == "failed"

\* Mutant of FailureEvent: the handler reports with the complete event.
FailureEventComplete == "complete"

\* ExtractionEvent.ERROR, the event of the handler (extraction_service.py:306).
FailureEvent == "error"

\* The handler of the pipeline scope (extraction_service.py:302-309), up to
\* its yield of the error event: status failed is set and committed, then
\* the event is made.  what names the call that raised.
PipelineFailure(what) ==
    /\ extraction_status' = FailureStatus(extraction_status)
    /\ writes' = Append(writes, FailureStatus(extraction_status))
    /\ Emit(FailureEvent, "failed")
    /\ fault' = what
    /\ pc' = "error"

\* extraction_service.py:135-141: the PDF is opened (PDFProcessor.__init__
\* and __enter__, pdf_processor.py:37-55, raise for a missing or unreadable
\* file), then progress(uploading) is yielded.
OpenPdf ==
    /\ pc = "starting"
    /\ \E opens \in BOOLEAN :
          IF opens
          THEN /\ Emit("progress", "uploading")
               /\ pc' = "uploading"
               /\ UNCHANGED <<extraction_status, writes, fault>>
          ELSE PipelineFailure("open")
    /\ UNCHANGED <<pdf_page_indices, total_pages_processed, gemini_file_uri,
                   store, cancelled, cancel_at, raised, detection, before, runs>>
    /\ UNCHANGED calls
    /\ UNCHANGED outside_service

\* extraction_service.py:143-157: the document is registered (upload_file
\* raises after its retries, gemini_service.py:195-198), the handle is
\* committed, the context text is read (pdf_processor.py:259-290), then
\* progress(detecting_pages) is yielded.
UploadAndContext ==
    /\ pc = "uploading"
    /\ \E uploads \in BOOLEAN, reads \in BOOLEAN :
          IF ~uploads
          THEN /\ PipelineFailure("upload")
               /\ UNCHANGED gemini_file_uri
          ELSE /\ gemini_file_uri' = TRUE
               /\ IF reads
                  THEN /\ Emit("progress", "detecting_pages")
                       /\ pc' = "detecting"
                       /\ UNCHANGED <<extraction_status, writes, fault>>
                  ELSE PipelineFailure("context")
    /\ UNCHANGED <<pdf_page_indices, total_pages_processed, store, cancelled, cancel_at,
                   raised, detection, before, runs>>
    /\ calls' = Append(calls, "upload_file")
    /\ UNCHANGED outside_service

\* extraction_service.py:159-211: metadata detection with its fallback, one
\* SchematicPage per item of the mapping, the commit, and the yield of the
\* page_mapping event.  When an item raises, the rows added before it are
\* pending in the session and the commit of the handler (line 304) writes
\* them.
DetectAndStorePages ==
    /\ pc = "detecting"
    /\ \E outcome \in DetectOutcomes(pdf_page_indices),
          metas \in [1..Len(Keys(pdf_page_indices)) -> DetectedMetas] :
          LET mapping == IF outcome = "raises"
                         THEN FallbackMapping(pdf_page_indices)
                         ELSE DetectAllPageNumbers(pdf_page_indices, outcome, metas)
              bad == FirstRaising(mapping)
              upto == IF bad = 0 THEN Len(mapping) ELSE bad - 1
              rows == [i \in 1..upto |-> PageRow(mapping[i][1], mapping[i][2])]
          IN  /\ detection' = outcome
              /\ store' = [store EXCEPT !.pages = @ \o rows]
              /\ IF bad = 0
                 THEN /\ Emit("page_mapping", MappingPayload(mapping))
                      /\ pc' = "mapped"
                      /\ UNCHANGED <<extraction_status, writes, fault>>
                 ELSE PipelineFailure(RaisedAt(mapping, bad))
    /\ UNCHANGED <<pdf_page_indices, total_pages_processed, gemini_file_uri,
                   cancelled, cancel_at, raised, before, runs>>
    /\ calls' = Append(calls, "detect_all_page_numbers")
    /\ UNCHANGED outside_service

\* schematic_file.extraction_status = ExtractionStatus.COMPLETED
\* (extraction_service.py:279).
CompletedStatus(status) == "completed"

\* The totals of the complete event (extraction_service.py:284-300):
\* the row counts of the document at that moment.
CompleteData(processed) ==
    [status |-> "completed",
     pages_processed |-> processed,
     total_components |-> Len(store.components),
     total_connections |-> Len(store.connections),
     total_wire_labels |-> Len(store.wire_labels)]

\* extraction_service.py:213-300 for a list with no position: the loop of
\* line 215 has no iteration, pages_processed stays 0 (line 214) and the
\* counter of the document is not written; status completed is committed
\* and the complete event is yielded.
\* (No other list reaches line 213: see PageLoopNotEntered.)
CompleteExtraction ==
    /\ pc = "mapped"
    /\ pdf_page_indices = <<>>
    /\ extraction_status' = CompletedStatus(extraction_status)
    /\ writes' = Append(writes, CompletedStatus(extraction_status))
    /\ Emit("complete", CompleteData(0))
    /\ pc' = "complete"
    /\ UNCHANGED <<pdf_page_indices, total_pages_processed, gemini_file_uri,
                   store, cancelled, cancel_at, raised, fault, detection, before, runs>>
    /\ UNCHANGED calls
    /\ UNCHANGED outside_service

\* Mutant of Return: leaving the with block raises into the handler of the
\* pipeline scope, which writes failed over completed.
ReturnThroughHandler ==
    /\ pc = "complete"
    /\ PipelineFailure("exit")
    /\ UNCHANGED <<pdf_page_indices, total_pages_processed, gemini_file_uri,
                   store, cancelled, cancel_at, raised, detection, before, runs>>
    /\ UNCHANGED calls
    /\ UNCHANGED outside_service

\* The request after the complete event: the with block is left and the
\* generator returns (extraction_service.py:300).
Return ==
    /\ pc = "complete"
    /\ pc' = "done"
    /\ UNCHANGED <<pdf_page_indices, extraction_status, total_pages_processed,
                   gemini_file_uri, store, seq_counter, cancelled, events,
                   raised, fault, detection, cancel_at, writes, before, runs>>
    /\ UNCHANGED calls
    /\ UNCHANGED outside_service

\* The request after the error event: raise (extraction_service.py:310).
Reraise ==
    /\ pc = "error"
    /\ pc' = "done"
    /\ raised' = TRUE
    /\ UNCHANGED <<pdf_page_indices, extraction_status, total_pages_processed,
                   gemini_file_uri, store, seq_counter, cancelled, events,
                   fault, detection, cancel_at, writes, before, runs>>
    /\ UNCHANGED calls
    /\ UNCHANGED outside_service

\* The consumer closes the generator where it is suspended: GeneratorExit
\* is no Exception, so the handler of line 302 does not run.
Close ==
    /\ pc \in Suspended \cup {"created"}
    /\ pc' = "closed"
    /\ UNCHANGED <<pdf_page_indices, extraction_status, total_pages_processed,
                   gemini_file_uri, store, seq_counter, cancelled, events,
                   raised, fault, detection, cancel_at, writes, before, runs>>
    /\ UNCHANGED calls
    /\ UNCHANGED outside_service

Next ==
    \/ Invoke
    \/ Start
    \/ OpenPdf
    \/ UploadAndContext
    \/ DetectAndStorePages
    \/ CompleteExtraction
    \/ Return
    \/ Reraise
    \/ Close
    \/ Cancel

Spec == Init /\ [][Next]_vars

\* ------------------------------------------------------------ type and reach
TypeOK ==
    /\ pc \in Suspended \cup {"idle", "created", "done", "closed"}
    /\ pdf_page_indices \in PageLists
    /\ extraction_status \in ExtractionStatus
    /\ total_pages_processed \in Nat
    /\ gemini_file_uri \in BOOLEAN
    /\ seq_counter \in Nat
    /\ cancelled \in BOOLEAN
    /\ raised \in BOOLEAN
    /\ runs \in 0..MaxRuns

\* The page loop (extraction_service.py:215-276) is entered with no list:
\* a list with a position makes the mapping non-empty, and the first
\* SchematicPage(...) of line 181 raises (SchematicPageRaises), so the
\* generator is suspended at the page_mapping yield only with an empty list.
PageLoopNotEntered == pc = "mapped" => pdf_page_indices = <<>>

\* No Page row is ever stored: the first row of every mapping raises.
NoPageRow == store.pages = <<>>

\* The setup calls of an invocation: the registration once, then the
\* metadata detection once, and no other adapter call.
SetupCallsOnce ==
    /\ calls \in {<<>>, <<"upload_file">>, <<"upload_file", "detect_all_page_numbers">>}
    /\ (detection # "not_called") <=> (Len(calls) = 2)

\* ------------------------------------------ the recognition adapter alone
\* GeminiService (gemini_service.py) called directly, method by method.  An
\* action is one call; what the remote service does during the call is
\* drawn from small sets and kept in the variable call.

\* How one recognition request of extract_page can end
\* (gemini_service.py:250-263): a parsed payload, an exception of the
\* request, or text that json.loads rejects.
AttemptOutcomes == {"ok", "request_raises", "unparsable"}

\* How genai.get_file of the handle can end (gemini_service.py:230, 331).
LookupOutcomes == {"ok", "raises"}

\* The retry loop of extract_page (gemini_service.py:247-274), from the
\* 0-based attempt on: return at the first success, re-raise the failure of
\* the attempt numbered max - 1, go on otherwise (after the backoff sleep);
\* a loop with no iteration left ends in the RuntimeError of line 274.
RECURSIVE ExtractLoop(_, _, _)
ExtractLoop(script, max, attempt) ==
    IF attempt >= max
    THEN [attempts |-> attempt, raised |-> TRUE, failure |-> "exhausted",
          slept |-> <<>>]
    ELSE IF script[attempt + 1] = "ok"
    THEN [attempts |-> attempt + 1, raised |-> FALSE, failure |-> "none",
          slept |-> <<>>]
    ELSE IF attempt = max - 1
    THEN [attempts |-> attempt + 1, raised |-> TRUE, failure |-> script[attempt + 1],
          slept |-> <<>>]
    ELSE LET rest == ExtractLoop(script, max, attempt + 1)
         IN  [rest EXCEPT !.slept = <<attempt>> \o @]

\* GeminiService.extract_page (gemini_service.py:223-274): the handle is
\* looked up before the loop and outside any try (line 230), so a failure
\* of the lookup leaves the method at once.
ExtractPageResult(lookup, script, max) ==
    IF lookup = "raises"
    THEN [attempts |-> 0, raised |-> TRUE, failure |-> "lookup", slept |-> <<>>]
    ELSE ExtractLoop(script, max, 0)

\* Config.RETRY_BASE_DELAY and Config.RETRY_MAX_DELAY (config.py:64-65),
\* 1.0 s and 30.0 s, in milliseconds: a tenth of every delay the schedule
\* produces is then a whole number.
RETRY_BASE_DELAY == 1000

RETRY_MAX_DELAY == 30000

\* Mutant of Backoff: the exponential without the cap.
Uncapped(attempt) == RETRY_BASE_DELAY * (2 ^ attempt)

\* delay of gemini_service.py:531.
Backoff(attempt) ==
    LET exponential == RETRY_BASE_DELAY * (2 ^ attempt)
    IN  IF exponential < RETRY_MAX_DELAY THEN exponential ELSE RETRY_MAX_DELAY

\* random.uniform(0, delay * 0.1) (gemini_service.py:532): any value of
\* the interval, here its two ends and its middle.
Jitters(delay) == {0, (delay \div 10) \div 2, delay \div 10}

\* What GeminiService._calculate_backoff (gemini_service.py:526-534) can
\* return for an attempt.
CalculateBackoffResults(attempt) ==
    {Backoff(attempt) + jitter : jitter \in Jitters(Backoff(attempt))}

\* The sleeps of one call: a choice of _calculate_backoff for every
\* attempt the loop slept after (gemini_service.py:271-272).
Sleeps(slept) ==
    {delays \in [1..Len(slept) -> UNION {CalculateBackoffResults(a) : a \in 0..MaxAttempt}] :
        \A k \in 1..Len(slept) : delays[k] \in CalculateBackoffResults(slept[k])}

\* A call of extract_page.
ExtractPage ==
    /\ \E lookup \in LookupOutcomes, script \in [1..max_retries -> AttemptOutcomes] :
          LET res == ExtractPageResult(lookup, script, max_retries)
          IN  \E delays \in Sleeps(res.slept) :
                call' = [NoCall EXCEPT !.op = "extract_page",
                                       !.cache_before = file_cache,
                                       !.lookup = lookup,
                                       !.script = script,
                                       !.attempts = res.attempts,
                                       !.raised = res.raised,
                                       !.failure = res.failure,
                                       !.slept = res.slept,
                                       !.delays = delays]
    /\ UNCHANGED <<max_retries, file_cache, upload_requests, registered, outside_adapter>>

\* A call of _calculate_backoff alone.
CalculateBackoff ==
    /\ \E attempt \in 0..MaxAttempt : \E delay \in CalculateBackoffResults(attempt) :
          call' = [NoCall EXCEPT !.op = "calculate_backoff",
                                 !.attempt = attempt,
                                 !.delays = <<delay>>]
    /\ UNCHANGED <<max_retries, file_cache, upload_requests, registered, outside_adapter>>

\* An item of the "pages" list of a detection response: pdf_page is the
\* 1-based page the model names (Null when it names none), meta what
\* lines 414-421 keep of the item.
ResponseItems ==
    [pdf_page : {Null} \cup 1..(PdfPageCount + 1),
     meta : {[present |-> TRUE, num |-> 3, conf |-> 8],
             [present |-> TRUE, num |-> 3, conf |-> Null]}]

Responses == SeqsUpTo(ResponseItems, MaxItems)

\* The default of gemini_service.py:427-434 for a requested position the
\* response has no item for: every field None, the confidence too.
DefaultEntry == NullMeta

\* page_mapping.get(idx, default) after the loop of gemini_service.py:400-421:
\* items without pdf_page are skipped, pdf_page - 1 is the position, and a
\* later item for a position replaces an earlier one.
RECURSIVE PageMappingGet(_, _)
PageMappingGet(response, idx) ==
    IF response = <<>> THEN DefaultEntry
    ELSE LET item == response[Len(response)]
         IN  IF item.pdf_page # Null /\ item.pdf_page - 1 = idx
             THEN item.meta
             ELSE PageMappingGet(SubSeq(response, 1, Len(response) - 1), idx)

\* result_mapping (gemini_service.py:424-437): an entry for every requested
\* position, keyed by position.
ResultMapping(indices, response) ==
    LET keys == Keys(indices)
    IN  [i \in 1..Len(keys) |-> <<keys[i], PageMappingGet(response, keys[i])>>]

\* The mapping a call returns: line 442 when the request or the parsing
\* raised, lines 424-437 otherwise.
DetectResult(indices, outcome, response) ==
    IF outcome = "swallowed"
    THEN DetectAllPageNumbers(indices, outcome, <<>>)
    ELSE ResultMapping(indices, response)

\* A call of detect_all_page_numbers (gemini_service.py:276-442), which
\* sends one request and has no retry loop.
DetectCall ==
    /\ \E indices \in PageLists :
       \E outcome \in DetectOutcomes(indices),
          response \in Responses :
          call' = [NoCall EXCEPT !.op = "detect_all_page_numbers",
                                 !.cache_before = file_cache,
                                 !.indices = indices,
                                 !.lookup = IF outcome = "raises" THEN "raises" ELSE "ok",
                                 !.attempts = IF outcome = "raises" \/ indices = <<>>
                                              THEN 0 ELSE 1,
                                 !.raised = (outcome = "raises"),
                                 !.failure = IF outcome = "raises" THEN "lookup"
                                             ELSE IF outcome = "swallowed" THEN "request"
                                             ELSE "none",
                                 !.response = IF outcome = "ok" /\ indices # <<>>
                                              THEN response ELSE <<>>,
                                 !.mapping = IF outcome = "raises" THEN <<>>
                                             ELSE DetectResult(indices, outcome, response)]
    /\ UNCHANGED <<max_retries, file_cache, upload_requests, registered, outside_adapter>>

\* An adapter constructed under any configured number of attempts up to
\* the default.
AdapterInit ==
    /\ ServiceInit
    /\ NoRequests
    /\ NoRows
    /\ NotValidated
    /\ \E retries \in 0..GEMINI_MAX_RETRIES : AdapterConstructed(retries)

AdapterNext ==
    \/ ExtractPage
    \/ DetectCall

AdapterSpec == AdapterInit /\ [][AdapterNext]_vars

\* The retry schedule: calls of extract_page and of _calculate_backoff.
BackoffNext ==
    \/ ExtractPage
    \/ CalculateBackoff

BackoffSpec == AdapterInit /\ [][BackoffNext]_vars

\* --------------------------------------------------- registration alone
\* How one upload attempt can end (gemini_service.py:177-188): the remote
\* file becomes usable, it ends in state FAILED, or the upload (or a poll of
\* its state) raises.
UploadOutcomes == {"ok", "failed_state", "raises"}

\* The retry loop of upload_file (gemini_service.py:174-202), from the
\* 0-based attempt on.
RECURSIVE UploadLoop(_, _, _)
UploadLoop(script, max, attempt) ==
    IF attempt >= max
    THEN [attempts |-> attempt, raised |-> TRUE, failure |-> "exhausted"]
    ELSE IF script[attempt + 1] = "ok"
    THEN [attempts |-> attempt + 1, raised |-> FALSE, failure |-> "none"]
    ELSE IF attempt = max - 1
    THEN [attempts |-> attempt + 1, raised |-> TRUE, failure |-> script[attempt + 1]]
    ELSE UploadLoop(script, max, attempt + 1)

\* Mutant of CacheAfter: the handle of the last uploaded file is cached
\* whether or not the file became usable.
CacheEveryUpload(cache, path, res, handle) ==
    IF res.attempts > 0 THEN [cache EXCEPT ![path] = handle] ELSE cache

\* self._file_cache[cache_key] = file_uri (gemini_service.py:191), reached
\* only by an attempt that did not raise.
CacheAfter(cache, path, res, handle) ==
    IF res.raised THEN cache ELSE [cache EXCEPT ![path] = handle]

\* GeminiService.upload_file (gemini_service.py:159-202): the existence
\* check (160-162) comes first, then the cache (165-167), then the loop.
\* The remote service names every uploaded file anew: the handle of an
\* upload is the number of the request that made it.
UploadFileResult(cache, path, exists, script, max, requests) ==
    IF ~exists
    THEN [attempts |-> 0, raised |-> TRUE, failure |-> "not_found",
          handle |-> Null, cache |-> cache]
    ELSE IF cache[path] # Null
    THEN [attempts |-> 0, raised |-> FALSE, failure |-> "none",
          handle |-> cache[path], cache |-> cache]
    ELSE LET res == UploadLoop(script, max, 0)
             handle == requests + res.attempts
         IN  [attempts |-> res.attempts, raised |-> res.raised,
              failure |-> res.failure,
              handle |-> IF res.raised THEN Null ELSE handle,
              cache |-> CacheAfter(cache, path, res, handle)]

\* A call of upload_file.
UploadFile ==
    /\ upload_requests < MaxUploadRequests
    /\ \E path \in Paths, exists \in BOOLEAN,
          script \in [1..max_retries -> UploadOutcomes] :
          LET res == UploadFileResult(file_cache, path, exists, script,
                                      max_retries, upload_requests)
          IN  /\ file_cache' = res.cache
              /\ upload_requests' = upload_requests + res.attempts
              /\ registered' = IF ~res.raised /\ registered[path] = Null
                               THEN [registered EXCEPT ![path] = res.handle]
                               ELSE registered
              /\ call' = [NoCall EXCEPT !.op = "upload_file",
                                        !.path = path,
                                        !.exists = exists,
                                        !.script = script,
                                        !.cache_before = file_cache,
                                        !.registered_before = registered[path],
                                        !.attempts = res.attempts,
                                        !.raised = res.raised,
                                        !.failure = res.failure,
                                        !.handle = res.handle]
    /\ UNCHANGED <<max_retries, outside_adapter>>

\* GeminiService.clear_cache (gemini_service.py:536-538).
ClearCache ==
    /\ file_cache' = [p \in Paths |-> Null]
    /\ call' = [NoCall EXCEPT !.op = "clear_cache", !.cache_before = file_cache]
    /\ UNCHANGED <<max_retries, upload_requests, registered, outside_adapter>>

RegistrationNext ==
    \/ UploadFile
    \/ ClearCache

RegistrationSpec == AdapterInit /\ [][RegistrationNext]_vars

\* ------------------------------------------- registration, step by step
\* upload_file (gemini_service.py:148-202) one remote call at a time.  The
\* activation is kept in call: at is the statement the method stands
\* before ("uploading": genai.upload_file of line 177; "waiting":
\* time.sleep of line 184; "polling": genai.get_file of line 185) or how
\* it ended, attempts counts the uploads made, state is the state last
\* reported for the uploaded file.

\* uploaded_file.state.name as the remote service reports it.
RemoteStates == {"PROCESSING", "FAILED", "ACTIVE"}

\* except Exception (gemini_service.py:195-200): the failure of the attempt
\* numbered max_retries - 1 is re-raised, any other is followed by the
\* backoff sleep and the next attempt.
UploadHandler(c, max, failure) ==
    IF c.attempts = max
    THEN [c EXCEPT !.at = "raised", !.raised = TRUE, !.failure = failure]
    ELSE [c EXCEPT !.at = "uploading"]

\* Lines 183-193 for a reported state: PROCESSING enters (or stays in) the
\* wait loop, FAILED raises the RuntimeError of line 188 into the handler,
\* any other state returns the handle.
UploadAfterState(c, max, state, handle) ==
    IF state = "PROCESSING"
    THEN [c EXCEPT !.at = "waiting", !.state = state]
    ELSE IF state = "FAILED"
    THEN UploadHandler([c EXCEPT !.state = state], max, "failed_state")
    ELSE [c EXCEPT !.at = "returned", !.state = state, !.handle = handle]

\* After a remote call of the activation c: how it ended decides.
UploadAfterCall(c, max, outcome, handle) ==
    IF outcome = "raises"
    THEN UploadHandler(c, max, "raises")
    ELSE UploadAfterState(c, max, outcome, handle)

\* The cache and the first registration once the activation stands at its
\* return (gemini_service.py:190-193).
UploadEffects(c) ==
    /\ file_cache' = IF c.at = "returned"
                     THEN [file_cache EXCEPT ![c.path] = c.handle]
                     ELSE file_cache
    /\ registered' = IF c.at = "returned" /\ registered[c.path] = Null
                     THEN [registered EXCEPT ![c.path] = c.handle]
                     ELSE registered

\* upload_file is called (gemini_service.py:159-174): the existence check,
\* the cache, and a loop that has no iteration when max_retries is 0.
UploadCall ==
    /\ call.at \notin {"uploading", "waiting", "polling"}
    /\ upload_requests < MaxUploadRequests
    /\ \E path \in Paths, exists \in BOOLEAN :
          LET c == [NoCall EXCEPT !.op = "upload_file", !.path = path,
                                  !.exists = exists,
                                  !.cache_before = file_cache,
                                  !.registered_before = registered[path]]
          IN  call' = IF ~exists
                      THEN [c EXCEPT !.at = "raised", !.raised = TRUE,
                                     !.failure = "not_found"]
                      ELSE IF file_cache[path] # Null
                      THEN [c EXCEPT !.at = "returned", !.handle = file_cache[path]]
                      ELSE IF max_retries = 0
                      THEN [c EXCEPT !.at = "raised", !.raised = TRUE,
                                     !.failure = "exhausted"]
                      ELSE [c EXCEPT !.at = "uploading"]
    /\ UNCHANGED <<max_retries, file_cache, upload_requests, registered, outside_adapter>>

\* genai.upload_file returns or raises (gemini_service.py:177-180).
GenaiUploadFile ==
    /\ call.at = "uploading"
    /\ upload_requests' = upload_requests + 1
    /\ \E outcome \in RemoteStates \cup {"raises"} :
          LET c == UploadAfterCall([call EXCEPT !.attempts = @ + 1], max_retries,
                                   outcome, upload_requests + 1)
          IN  /\ call' = c
              /\ UploadEffects(c)
    /\ UNCHANGED <<max_retries, outside_adapter>>

\* time.sleep(1) in the wait loop (gemini_service.py:184).
WaitForProcessing ==
    /\ call.at = "waiting"
    /\ call' = [call EXCEPT !.at = "polling"]
    /\ UNCHANGED <<max_retries, file_cache, upload_requests, registered, outside_adapter>>

\* genai.get_file returns or raises (gemini_service.py:185).
GenaiGetFile ==
    /\ call.at = "polling"
    /\ \E outcome \in RemoteStates \cup {"raises"} :
          LET c == UploadAfterCall(call, max_retries, outcome, upload_requests)
          IN  /\ call' = c
              /\ UploadEffects(c)
    /\ UNCHANGED <<max_retries, upload_requests, outside_adapter>>

UploadNext ==
    \/ UploadCall
    \/ GenaiUploadFile
    \/ WaitForProcessing
    \/ GenaiGetFile

\* Every remote call returns and the calling thread runs on: a statement
\* of upload_file that can be executed is executed.
FairUploadSpec ==
    /\ AdapterInit
    /\ [][UploadNext]_vars
    /\ WF_vars(GenaiUploadFile \/ WaitForProcessing \/ GenaiGetFile)

\* ------------------------------------------------- the reference resolver
\* ExtractionService.resolve_component_references
\* (extraction_service.py:436-477) on the rows of one document.

\* Component marks.  A connection endpoint holds one of them or nothing
\* (None or the empty string, both falsy at lines 462 and 470).
Marks == {"X", "Y"}
NoMark == ""

\* The pages (pdf_page_index) the rows of the resolved document lie on.
RowPages == {0, 1, 2}

\* Component rows: id is the primary key; mark and page obey the unique
\* constraint uq_component_mark_page (models.py:159-163).
ComponentKeys == Marks \X RowPages

ComponentLists ==
    {[i \in 1..Len(ks) |-> [id |-> i, mark |-> ks[i][1], page |-> ks[i][2]]] :
        ks \in {s \in SeqsUpTo(ComponentKeys, MaxComponents) :
                   \A i, j \in 1..Len(s) : i # j => s[i] # s[j]}}

\* Connection rows as _extract_page builds them
\* (extraction_service.py:358-372): the raw marks and the page, no
\* component identifier yet.
ConnectionRows ==
    {[from_mark |-> f, to_mark |-> g, page |-> p, from_id |-> Null, to_id |-> Null] :
        f \in Marks \cup {NoMark}, g \in Marks \cup {NoMark}, p \in RowPages}

ConnectionLists == SeqsUpTo(ConnectionRows, MaxConnections)

\* Mutant of Iteration: the query returns the rows in another order on
\* every second run.
UnstableIteration(rows, run) ==
    IF run % 2 = 0 THEN [i \in 1..Len(rows) |-> rows[Len(rows) + 1 - i]] ELSE rows

\* self.db.query(Component).filter_by(...).all()
\* (extraction_service.py:443-445): the rows in the store's iteration
\* order, the same on every run over unchanged rows.
Iteration(rows, run) == rows

\* Mutant of FallbackEntry: a later component replaces the entry.
FallbackLast(plain, comp) == [plain EXCEPT ![comp.mark] = comp.id]

\* if comp.mark not in mark_to_id: mark_to_id[comp.mark] = comp.id
\* (extraction_service.py:453-454).
FallbackEntry(plain, comp) ==
    IF plain[comp.mark] = Null THEN [plain EXCEPT ![comp.mark] = comp.id] ELSE plain

\* mark_to_id after the first n components (extraction_service.py:448-454):
\* scoped holds the (mark, page) keys, plain the mark-only keys.
RECURSIVE MarkToId(_, _)
MarkToId(comps, n) ==
    IF n = 0
    THEN [scoped |-> [k \in ComponentKeys |-> Null], plain |-> [m \in Marks |-> Null]]
    ELSE LET d == MarkToId(comps, n - 1)
             comp == comps[n]
         IN  [scoped |-> [d.scoped EXCEPT ![<<comp.mark, comp.page>>] = comp.id],
              plain |-> FallbackEntry(d.plain, comp)]

\* Mutant of ResolveEndpoint: the mark-only key is tried first.
ResolveByMarkOnly(d, mark, page, current) ==
    IF mark = NoMark THEN current
    ELSE IF d.plain[mark] # Null THEN d.plain[mark]
    ELSE current

\* One endpoint (extraction_service.py:462-468, and 470-475): the
\* page-scoped key, then the mark-only key, else the identifier is left as
\* it is.
ResolveEndpoint(d, mark, page, current) ==
    IF mark = NoMark THEN current
    ELSE IF d.scoped[<<mark, page>>] # Null THEN d.scoped[<<mark, page>>]
    ELSE IF d.plain[mark] # Null THEN d.plain[mark]
    ELSE current

\* One connection (extraction_service.py:461-475): its two endpoints.
ResolveRow(d, conn) ==
    [conn EXCEPT
        !.from_id = ResolveEndpoint(d, conn.from_mark, conn.page, @),
        !.to_id = ResolveEndpoint(d, conn.to_mark, conn.page, @)]

\* The document resolved (schematic_file_id) and the other document of the
\* store, whose rows stand in the same tables: a component with a mark and
\* page the resolved document may use too, and a connection to it.
ResolvedFile == 1
OtherFile == 2

OtherDocument ==
    [components |-> <<[id |-> 9, mark |-> "X", page |-> 0]>>,
     connections |-> <<[from_mark |-> "X", to_mark |-> "X", page |-> 0,
                        from_id |-> Null, to_id |-> Null]>>]

\* A table: the rows of the resolved document, then those of the other.
Table(own, other) ==
    [i \in 1..Len(own) |-> [file |-> ResolvedFile, row |-> own[i]]]
        \o [i \in 1..Len(other) |-> [file |-> OtherFile, row |-> other[i]]]

Rows(table) == [i \in 1..Len(table) |-> table[i].row]

\* Mutant of FilterBy: the query takes the rows of every document.
NoFilter(entry, file) == TRUE

\* filter_by(schematic_file_id=schematic_file_id)
\* (extraction_service.py:443-445, 457-459).
FilterBy(entry, file) == entry.file = file

Query(table, file) ==
    LET Test(entry) == FilterBy(entry, file) IN SelectSeq(table, Test)

\* The Connection table after a run: the rows the query returns are
\* resolved against the components the query returns, the others are not
\* loaded.
ResolvedTable(run) ==
    LET comps == Iteration(Rows(Query(Table(components, foreign.components),
                                      ResolvedFile)), run)
        d == MarkToId(comps, Len(comps))
        table == Table(connections, foreign.connections)
    IN  [i \in 1..Len(table) |->
            IF FilterBy(table[i], ResolvedFile)
            THEN [table[i] EXCEPT !.row = ResolveRow(d, @)]
            ELSE table[i]]

\* A run of resolve_component_references, with its commit.
Resolve ==
    /\ resolver_runs < MaxResolverRuns
    /\ resolver_runs' = resolver_runs + 1
    /\ ids_before' = connections
    /\ LET after == Rows(ResolvedTable(resolver_runs + 1))
       IN  /\ connections' = SubSeq(after, 1, Len(connections))
           /\ foreign' = [foreign EXCEPT
                  !.connections = SubSeq(after, Len(connections) + 1, Len(after))]
    /\ UNCHANGED <<components, outside_resolver>>

\* A document with extracted rows, none resolved yet.
ResolverInit ==
    /\ ServiceInit
    /\ NoRequests
    /\ AdapterConstructed(GEMINI_MAX_RETRIES)
    /\ components \in ComponentLists
    /\ connections \in ConnectionLists
    /\ resolver_runs = 0
    /\ ids_before = <<>>
    /\ foreign = OtherDocument
    /\ NotValidated

ResolverNext == Resolve

ResolverSpec == ResolverInit /\ [][ResolverNext]_vars

\* ------------------------------------------------ the validation service
\* ValidationService.validate_page and validate_full_file
\* (validation_service.py:42-212) on the rows of one document.  A
\* confidence score is a fraction <<numerator, denominator>> in lowest
\* terms, so that no rounding of the float enters the comparison.

\* The positions validate_page is called with: position 0, whose
\* SchematicPage row the document holds, and position 1, which has none.
ValidatedPositions == {0, 1}

\* Marks of validated components; UNKNOWN is the default of
\* extraction_service.py:339.
ValidatedMarks == {"X", "Y", "UNKNOWN"}

\* Coordinates of a component (models.py:149-150, nullable): none, left of
\* the page, and its right edge; none, the top edge, and below the page.
XValues == {None, Some(-1), Some(PageWidth)}
YValues == {None, Some(0), Some(PageHeight + 1)}

\* Stored dimensions of the page at position 0 (models.py:120-121,
\* nullable): both known, the width null, the width zero.
PageRows ==
    {[present |-> TRUE, width |-> w, height |-> Some(PageHeight)] :
        w \in {Some(PageWidth), None, Some(0)}}

\* Component rows, unique on (mark, page) (models.py:159-163).
RowLists(rows) ==
    {[i \in 1..Len(s) |-> [id |-> i, mark |-> s[i].mark, page |-> s[i].page,
                           x |-> s[i].x, y |-> s[i].y]] :
        s \in {q \in SeqsUpTo(rows, MaxValidatedComponents) :
                  \A i, j \in 1..Len(q) :
                     i # j => <<q[i].mark, q[i].page>> # <<q[j].mark, q[j].page>>}}

\* Components of position 0, with their coordinates.
PlacedComponents ==
    RowLists({[mark |-> m, page |-> 0, x |-> x, y |-> y] :
                 m \in ValidatedMarks, x \in XValues, y \in YValues})

\* Components of both positions, without coordinates.
UnplacedComponents ==
    RowLists({[mark |-> m, page |-> p, x |-> None, y |-> None] :
                 m \in ValidatedMarks, p \in ValidatedPositions})

\* Connection rows as validate_full_file reads them (models.py:199-207).
ValidatedConnections ==
    SeqsUpTo({[from_mark |-> f, to_mark |-> g, is_external |-> e] :
                 f \in {NoMark, "X", "Z"}, g \in {NoMark, "X", "Z"}, e \in BOOLEAN},
             MaxValidatedConnections)

\* The documents validated.  Those with a stored page, placed components
\* and possibly a wire label without text on that page:
PageDocuments ==
    {[page |-> pg, components |-> cs, connections |-> <<>>, unlabelled |-> u] :
        pg \in PageRows, cs \in PlacedComponents, u \in {0, 1}}

\* and those with connections and with components without coordinates.
FileDocuments ==
    {[page |-> NoDocument.page, components |-> cs, connections |-> ks, unlabelled |-> 0] :
        cs \in UnplacedComponents, ks \in ValidatedConnections}

\* A discrepancy (validation_service.py:80-84 and the like): about names
\* the coordinate a coord_out_of_bounds message speaks of.
Issue(type, severity, component, about, count) ==
    [type |-> type, severity |-> severity, component |-> component,
     about |-> about, count |-> count]

\* query(SchematicPage).filter_by(...).first() (validation_service.py:224-227).
PageOf(doc, idx) == IF idx = 0 THEN doc.page ELSE NoDocument.page

\* query(Component).filter_by(pdf_page_index=...) (validation_service.py:233-236).
ComponentsOn(doc, idx) == SelectSeq(doc.components, LAMBDA c : c.page = idx)

\* not page.width (validation_service.py:229): None and 0 are falsy.
Falsy(o) == o = None \/ o[1] = 0

\* The issues of one component (validation_service.py:239-254): both checks
\* stand under the test that neither coordinate is None.
ComponentIssues(comp, w, h) ==
    IF comp.x # None /\ comp.y # None
    THEN (IF comp.x[1] < 0 \/ comp.x[1] > w
          THEN <<Issue("coord_out_of_bounds", "warning", comp.id, "x", 1)>>
          ELSE <<>>)
         \o
         (IF comp.y[1] < 0 \/ comp.y[1] > h
          THEN <<Issue("coord_out_of_bounds", "warning", comp.id, "y", 1)>>
          ELSE <<>>)
    ELSE <<>>

RECURSIVE CoordIssues(_, _, _, _)
CoordIssues(comps, w, h, n) ==
    IF n > Len(comps) THEN <<>>
    ELSE ComponentIssues(comps[n], w, h) \o CoordIssues(comps, w, h, n + 1)

\* ValidationService._validate_coordinates (validation_service.py:214-255).
ValidateCoordinates(doc, idx) ==
    LET page == PageOf(doc, idx)
    IN  IF ~page.present \/ Falsy(page.width) \/ Falsy(page.height)
        THEN <<>>
        ELSE CoordIssues(ComponentsOn(doc, idx), page.width[1], page.height[1], 1)

\* ValidationService._validate_data_integrity (validation_service.py:257-297).
ValidateDataIntegrity(doc, idx) ==
    LET no_mark == Len(SelectSeq(ComponentsOn(doc, idx),
                                 LAMBDA c : c.mark \in {"", "UNKNOWN"}))
        no_label == IF idx = 0 THEN doc.unlabelled ELSE 0
    IN  (IF no_mark > 0
         THEN <<Issue("missing_marks", "warning", Null, "none", no_mark)>> ELSE <<>>)
        \o
        (IF no_label > 0
         THEN <<Issue("missing_wire_labels", "warning", Null, "none", no_label)>>
         ELSE <<>>)

\* The discrepancies of validate_page (validation_service.py:59-92).
PageDiscrepancies(doc, idx) ==
    (IF Len(ComponentsOn(doc, idx)) = 0
     THEN <<Issue("no_components", "warning", Null, "none", 0)>> ELSE <<>>)
    \o ValidateCoordinates(doc, idx)
    \o ValidateDataIntegrity(doc, idx)

HasError(ds) == \E k \in 1..Len(ds) : ds[k].severity = "error"

\* The status of a page result (validation_service.py:103-108).
PageStatus(ds) ==
    IF ds # <<>> THEN (IF HasError(ds) THEN "fail" ELSE "warning") ELSE "pass"

\* ValidationService._count_orphaned_connections
\* (validation_service.py:299-321): one for every endpoint with a mark that
\* no component bears, on a connection that is not external.
RECURSIVE CountOrphanedConnections(_, _)
CountOrphanedConnections(doc, n) ==
    IF n = 0 THEN 0
    ELSE LET marks == {doc.components[k].mark : k \in 1..Len(doc.components)}
             conn == doc.connections[n]
             one(mark) == IF mark # NoMark /\ mark \notin marks /\ ~conn.is_external
                          THEN 1 ELSE 0
         IN  CountOrphanedConnections(doc, n - 1) + one(conn.from_mark) + one(conn.to_mark)

\* ValidationService._find_duplicate_marks (validation_service.py:323-340):
\* the (mark, page) groups with more than one component.
FindDuplicateMarks(doc) ==
    {g \in {<<doc.components[k].mark, doc.components[k].page>> :
               k \in 1..Len(doc.components)} :
        Cardinality({k \in 1..Len(doc.components) :
                        <<doc.components[k].mark, doc.components[k].page>> = g}) > 1}

\* The discrepancies of validate_full_file (validation_service.py:140-178).
FileDiscrepancies(doc) ==
    LET orphan_count == CountOrphanedConnections(doc, Len(doc.connections))
        duplicates == FindDuplicateMarks(doc)
    IN  (IF Len(doc.components) = 0
         THEN <<Issue("empty_extraction", "error", Null, "none", 0)>> ELSE <<>>)
        \o
        (IF orphan_count > 0
         THEN <<Issue("orphaned_connections", "warning", Null, "none", orphan_count)>>
         ELSE <<>>)
        \o
        (IF duplicates # {}
         THEN <<Issue("duplicate_marks", "warning", Null, "none", Cardinality(duplicates))>>
         ELSE <<>>)

\* Mutant of FileStatus: any discrepancy fails the document.
FailOnAny(ds) == IF ds # <<>> THEN "fail" ELSE "pass"

\* The status of a document result (validation_service.py:192-198).
FileStatus(ds) ==
    IF HasError(ds) THEN "fail" ELSE IF ds # <<>> THEN "warning" ELSE "pass"

\* Fractions.
RECURSIVE Gcd(_, _)
Gcd(a, b) == IF b = 0 THEN a ELSE Gcd(b, a % b)

Fraction(n, d) == LET g == Gcd(n, d) IN <<n \div g, d \div g>>

\* min(score, 1.0)
Capped(score) == IF score[1] > score[2] THEN <<1, 1>> ELSE score

\* sum(scores) / len(scores) for one or two ratios.
Mean(scores) ==
    IF Len(scores) = 1 THEN scores[1]
    ELSE Fraction(scores[1][1] * scores[2][2] + scores[2][1] * scores[1][2],
                  2 * scores[1][2] * scores[2][2])

\* The expected_counts argument of validate_page: absent (or an empty
\* dict), or a dict; a kind it does not name counts as 0 (lines 95, 98).
ExpectedCounts ==
    {None} \cup {Some(e) : e \in [components : 0..MaxExpected, connections : 0..MaxExpected]}

\* The Connection rows of the position: the connections of the documents
\* of the model lie on position 0.
ConnectionsOn(doc, idx) == IF idx = 0 THEN doc.connections ELSE <<>>

\* The completeness ratios (validation_service.py:94-100): extracted over
\* expected, for the kinds with a positive expected count.
Scores(doc, idx, expected) ==
    IF expected = None THEN <<>>
    ELSE (IF expected[1].components > 0
          THEN <<Fraction(Len(ComponentsOn(doc, idx)), expected[1].components)>>
          ELSE <<>>)
         \o
         (IF expected[1].connections > 0
          THEN <<Fraction(Len(ConnectionsOn(doc, idx)), expected[1].connections)>>
          ELSE <<>>)

\* confidence_score of the page result (validation_service.py:110, 118):
\* the mean of the ratios, or 0.9 without any; the cap is put on the mean.
PageConfidence(doc, idx, expected) ==
    LET scores == Scores(doc, idx, expected)
    IN  Capped(IF scores = <<>> THEN Fraction(9, 10) ELSE Mean(scores))

\* score of the document result (validation_service.py:175-181).
FileConfidence(doc, pages_processed) ==
    IF pages_processed > 0
    THEN Capped(Fraction(Len(doc.components), 5 * pages_processed))
    ELSE Fraction(0, 1)

\* The ValidationResult row of validate_page (validation_service.py:113-120).
PageResult(doc, idx, expected) ==
    LET ds == PageDiscrepancies(doc, idx)
    IN  [op |-> "validate_page", idx |-> idx,
         discrepancies |-> ds, status |-> PageStatus(ds),
         expected |-> expected,
         confidence |-> PageConfidence(doc, idx, expected)]

\* validate_page(schematic_file, pdf_page_index), with its commit.
ValidatePage ==
    /\ \E idx \in ValidatedPositions :
          validation' = PageResult(document, idx, None)
    /\ UNCHANGED <<document, outside_validation>>

\* validate_page(schematic_file, pdf_page_index, expected_counts), with its
\* commit.
ValidatePageExpecting ==
    /\ \E idx \in ValidatedPositions, expected \in ExpectedCounts \ {None} :
          validation' = PageResult(document, idx, expected)
    /\ UNCHANGED <<document, outside_validation>>

\* A call of validate_full_file, with the result row it commits.
ValidateFullFile ==
    /\ LET ds == FileDiscrepancies(document)
       IN  validation' = [op |-> "validate_full_file", idx |-> Null,
                          discrepancies |-> ds, status |-> FileStatus(ds),
                          expected |-> None,
                          confidence |-> FileConfidence(document, total_pages_processed)]
    /\ UNCHANGED <<document, outside_validation>>

ValidationInit ==
    /\ ServiceInit
    /\ NoRequests
    /\ AdapterConstructed(GEMINI_MAX_RETRIES)
    /\ NoRows
    /\ \/ document \in PageDocuments
       \/ document \in FileDocuments
    /\ validation = NoValidation

ValidationNext ==
    \/ ValidatePage
    \/ ValidateFullFile

ValidationSpec == ValidationInit /\ [][ValidationNext]_vars

\* validate_page on documents with components on both positions and with
\* connections, called with and without expected counts.
ConfidenceInit ==
    /\ ServiceInit
    /\ NoRequests
    /\ AdapterConstructed(GEMINI_MAX_RETRIES)
    /\ NoRows
    /\ document \in FileDocuments
    /\ validation = NoValidation

ConfidenceNext ==
    \/ ValidatePage
    \/ ValidatePageExpecting

ConfidenceSpec == ConfidenceInit /\ [][ConfidenceNext]_vars

\* ------------------------------------------------------ the HTTP routes
\* routes.py: the stream route (stream_extraction, lines 230-278) and the
\* cancel route (cancel_extraction, lines 281-297) on one document that
\* exists.  The server is threaded (app.py:70), so requests run side by
\* side; every request has a session of its own (get_db, routes.py:34-36)
\* and every stream a service of its own (routes.py:256).  An action is one
\* segment of generate() between two yields, or one whole cancel request.
\*
\* A stream passes Config.MVP_PDF_PAGES, a list with positions, so its
\* extract_schematic ends in the handler of line 302 like every such run
\* (PageLoopNotEntered).

\* The extraction of a stream is under way and none of its pages is begun.
Running == {"starting", "uploading", "detecting"}

\* What a commit leaves in the status column.  The session writes the
\* column when the value assigned differs from the value it loaded for the
\* row, and always when the attribute is expired (loaded = "none"); an
\* assignment of the loaded value is no change and writes nothing.
FlushedStatus(loaded, stored, value) ==
    IF loaded = value THEN stored ELSE value

\* The loop of extraction_service.py:178-193 raises for the pages of a
\* stream.
StreamPageRowsRaise == FirstRaising(FallbackMapping(MVP_PDF_PAGES)) # 0

\* The handler of extraction_service.py:302-309 in the service of stream r:
\* status failed is assigned and committed, the row is loaded again for the
\* event (schematic_file.id, line 309), the error event is yielded and
\* generate() sends it.  loaded is what the session holds for the status.
StreamFailure(r, loaded) ==
    /\ extraction_status' =
          FlushedStatus(loaded, extraction_status, FailureStatus(extraction_status))
    /\ streams' = [streams EXCEPT
          ![r] = [pc |-> "error",
                  loaded |-> FlushedStatus(loaded, extraction_status,
                                           FailureStatus(extraction_status)),
                  sent |-> Append(@.sent, FailureEvent)]]

\* What a request of the routes leaves alone besides the status.
outside_route ==
    <<pc, pdf_page_indices, total_pages_processed, gemini_file_uri, store,
      seq_counter, cancelled, events, raised, fault, detection, cancel_at,
      writes, before, runs, calls, adapter_vars, resolver_vars, validation_vars>>

\* GET /extract/<id>/stream (routes.py:230-278): the response is made around
\* generate(), of which no line has run.
StreamRequest(r) ==
    /\ streams[r].pc = "idle"
    /\ streams' = [streams EXCEPT ![r].pc = "created"]
    /\ UNCHANGED <<extraction_status, cancel_requests, cancelled_over>>
    /\ UNCHANGED outside_route

\* The server asks generate() for its first chunk (routes.py:238-262): the
\* document is read, the service is built, and extract_schematic runs to its
\* first yield (extraction_service.py:112-133): status in_progress is
\* committed, whatever the status was, and the row is loaded again for the
\* event.
StreamStart(r) ==
    /\ streams[r].pc = "created"
    /\ extraction_status' = "in_progress"
    /\ streams' = [streams EXCEPT
          ![r] = [pc |-> "starting", loaded |-> "in_progress",
                  sent |-> Append(@.sent, "progress")]]
    /\ UNCHANGED <<cancel_requests, cancelled_over>>
    /\ UNCHANGED outside_route

\* extraction_service.py:135-141 in stream r.
StreamOpenPdf(r) ==
    /\ streams[r].pc = "starting"
    /\ \E opens \in BOOLEAN :
          IF opens
          THEN /\ streams' = [streams EXCEPT
                     ![r].pc = "uploading", ![r].sent = Append(@, "progress")]
               /\ UNCHANGED extraction_status
          ELSE StreamFailure(r, streams[r].loaded)
    /\ UNCHANGED <<cancel_requests, cancelled_over>>
    /\ UNCHANGED outside_route

\* extraction_service.py:143-157 in stream r.  The commit of the handle
\* (line 145) expires the row: when the context text raises, the handler
\* assigns to an expired attribute; otherwise the row is loaded again for
\* the event of line 153, with the status the store holds then.
StreamUpload(r) ==
    /\ streams[r].pc = "uploading"
    /\ \E uploads \in BOOLEAN, reads \in BOOLEAN :
          IF ~uploads
          THEN StreamFailure(r, streams[r].loaded)
          ELSE IF reads
               THEN /\ streams' = [streams EXCEPT
                          ![r] = [pc |-> "detecting", loaded |-> extraction_status,
                                  sent |-> Append(@.sent, "progress")]]
                    /\ UNCHANGED extraction_status
               ELSE StreamFailure(r, "none")
    /\ UNCHANGED <<cancel_requests, cancelled_over>>
    /\ UNCHANGED outside_route

\* extraction_service.py:159-194 in stream r: whatever the detection
\* returns, the first page row raises and the handler runs.
StreamDetect(r) ==
    /\ streams[r].pc = "detecting"
    /\ StreamPageRowsRaise
    /\ StreamFailure(r, streams[r].loaded)
    /\ UNCHANGED <<cancel_requests, cancelled_over>>
    /\ UNCHANGED outside_route

\* The request after the error event: extract_schematic raises
\* (extraction_service.py:310), generate() catches and sends an error chunk
\* of its own (routes.py:265-266).
StreamReraise(r) ==
    /\ streams[r].pc = "error"
    /\ streams' = [streams EXCEPT ![r].pc = "caught", ![r].sent = Append(@, "error")]
    /\ UNCHANGED <<extraction_status, cancel_requests, cancelled_over>>
    /\ UNCHANGED outside_route

\* The request after that chunk: the session is closed and generate() ends
\* (routes.py:267-268).
StreamEnd(r) ==
    /\ streams[r].pc = "caught"
    /\ streams' = [streams EXCEPT ![r].pc = "done"]
    /\ UNCHANGED <<extraction_status, cancel_requests, cancelled_over>>
    /\ UNCHANGED outside_route

\* The client of stream r goes away and the server closes generate() where
\* it is suspended: GeneratorExit passes the except of routes.py:265 and that
\* of extraction_service.py:302 (neither catches it); the session is closed
\* (routes.py:267-268) and nothing is written.
Disconnect(r) ==
    /\ streams[r].pc \in Running \cup {"created", "error", "caught"}
    /\ streams' = [streams EXCEPT ![r].pc = "closed"]
    /\ UNCHANGED <<extraction_status, cancel_requests, cancelled_over>>
    /\ UNCHANGED outside_route

\* POST /extract/<id>/cancel (routes.py:281-297): status cancelled is
\* committed, whatever the status was; no service is reached
\* (ExtractionService.cancel has no caller).
CancelRequest ==
    /\ cancel_requests < MaxCancelRequests
    /\ extraction_status' = "cancelled"
    /\ cancel_requests' = cancel_requests + 1
    /\ cancelled_over' = cancelled_over \cup {r \in Requests : streams[r].pc \in Running}
    /\ UNCHANGED streams
    /\ UNCHANGED outside_route

Stream(r) ==
    \/ StreamStart(r)
    \/ StreamOpenPdf(r)
    \/ StreamUpload(r)
    \/ StreamDetect(r)
    \/ StreamReraise(r)
    \/ StreamEnd(r)

RouteNext ==
    \/ \E r \in Requests : StreamRequest(r)
    \/ \E r \in Requests : StreamStart(r)
    \/ \E r \in Requests : StreamOpenPdf(r)
    \/ \E r \in Requests : StreamUpload(r)
    \/ \E r \in Requests : StreamDetect(r)
    \/ \E r \in Requests : StreamReraise(r)
    \/ \E r \in Requests : StreamEnd(r)
    \/ \E r \in Requests : Disconnect(r)
    \/ CancelRequest

RouteSpec == Init /\ [][RouteNext]_vars

\* The server goes on asking a stream for chunks, or closes it: no stream
\* stays suspended for ever.  Requests arrive when clients send them.
RouteFairness == \A r \in Requests : WF_vars(Stream(r) \/ Disconnect(r))

FairRouteSpec == RouteSpec /\ RouteFairness

\* ----------------------------------------------------------------- claims
Terminal == {"completed", "failed", "cancelled"}

RecordEvents == {"component", "connection", "wire_label", "continuation"}

EventsOfType(type) == {k \in 1..Len(events) : events[k].type = type}

\* No collaborator of the pipeline scope raised in this invocation: the PDF
\* opened, the upload and the context text succeeded, and every selected
\* position is a page of the PDF.
NoCollaboratorFault ==
    /\ fault \notin {"open", "upload", "context", "dimensions"}
    /\ \A i \in 1..Len(pdf_page_indices) : ~DimensionsRaise(pdf_page_indices[i])

\* The invocation ran to its end (the generator returned or raised).
RunEnded == pc = "done"

\* C1 (as claimed; violated).  Partial-failure isolation: a run in which
\* nothing raises outside the per-page scope attempts every page, does not
\* re-raise and ends with status completed.
C1_PartialFailureIsolation ==
    (RunEnded /\ NoCollaboratorFault)
        => (extraction_status = "completed" /\ ~raised /\ fault = "none")

\* C2 (as claimed; violated).  Failure bookkeeping: a run over N distinct
\* pages ends completed with one ExtractionError row per failed page and the
\* persisted pages-processed counter equal to N minus the failed pages.
C2_FailureBookkeeping ==
    (RunEnded /\ NoCollaboratorFault /\ Keys(pdf_page_indices) = pdf_page_indices)
        => /\ extraction_status = "completed"
           /\ total_pages_processed = Len(pdf_page_indices) - Len(store.errors)

\* C3 (as claimed; violated).  A run over N pages in which no page fails
\* yields exactly one complete event, whose totals are the row counts of the
\* store and whose pages_processed is N, as is the persisted counter.
C3_CompleteEvent ==
    (RunEnded /\ NoCollaboratorFault /\ store.errors = <<>>)
        => /\ Cardinality(EventsOfType("complete")) = 1
           /\ \A k \in EventsOfType("complete") :
                 /\ events[k].data.total_components = Len(store.components)
                 /\ events[k].data.total_connections = Len(store.connections)
                 /\ events[k].data.total_wire_labels = Len(store.wire_labels)
                 /\ events[k].data.pages_processed = Len(pdf_page_indices)
           /\ total_pages_processed = Len(pdf_page_indices)

\* C4.  Event numbering: the k-th event of an invocation carries seq = k,
\* whatever the outcome of the run and whatever counter an earlier invocation
\* left on the service instance.
C4_EventNumbering == \A k \in 1..Len(events) : events[k].seq = k

\* C4 witness: a second invocation, begun after a completed one left its
\* counter behind, has handed over its five events.
C4_Witness ==
    /\ runs = 2
    /\ before = "completed"
    /\ pc = "complete"
    /\ Len(events) = 5

\* C5 (as claimed; violated).  A cancellation set before the first page
\* begins leaves no Page row for any page of the list and the status
\* cancelled.
C5_CancelBeforePage ==
    (RunEnded /\ NoCollaboratorFault /\ pdf_page_indices # <<>>
        /\ cancelled /\ cancel_at \in {"starting", "uploading", "detecting"})
        => (extraction_status = "cancelled" /\ store.pages = <<>>)

\* C6.  Pipeline-level failure: once something raised outside the per-page
\* scope, status failed is committed, the last event is an error event, the
\* stream holds no complete event, no further segment of the pipeline runs,
\* and the generator ends by raising; it raises for no other reason.
C6_PipelineFailure ==
    /\ fault # "none" =>
          /\ extraction_status = "failed"
          /\ events # <<>>
          /\ events[Len(events)].type = "error"
          /\ EventsOfType("complete") = {}
          /\ pc \in {"error", "done", "closed"}
          /\ (pc = "done" => raised)
    /\ raised => fault # "none"

\* C6 witness: registration raised and the exception reached the caller.
C6_Witness == pc = "done" /\ raised /\ fault = "upload"

\* C7 (as claimed; violated).  When metadata detection fails entirely, the
\* run still persists one Page row per selected position with null metadata
\* and confidence 0.5, emits the page_mapping event and ends completed.
C7_DetectionFallback ==
    (RunEnded /\ NoCollaboratorFault /\ detection \in {"raises", "swallowed"})
        => /\ extraction_status = "completed"
           /\ Cardinality(EventsOfType("page_mapping")) = 1
           /\ \A i \in 1..Len(pdf_page_indices) :
                 \E r \in 1..Len(store.pages) :
                    /\ store.pages[r].pdf_page_index = pdf_page_indices[i]
                    /\ store.pages[r].schematic_page_number = Null
                    /\ store.pages[r].detection_confidence = 5

\* C8 (as claimed; violated).  The status only ever moves along
\* pending -> in_progress -> {completed, failed, cancelled}.
LifecycleEdges ==
    {<<"pending", "in_progress">>, <<"in_progress", "completed">>,
     <<"in_progress", "failed">>, <<"in_progress", "cancelled">>}

C8_Original ==
    [][extraction_status' # extraction_status
          => <<extraction_status, extraction_status'>> \in LifecycleEdges]_vars

\* C8 (amended).  The first status write of an invocation is in_progress,
\* over whatever status it finds; the only other write of the invocation is
\* one terminal status, which is then the persisted status and is not
\* changed again; an invocation that runs to its end has written exactly one.
C8_Lifecycle ==
    /\ Len(writes) <= 2
    /\ writes # <<>> => writes[1] = "in_progress"
    /\ Len(writes) = 2 => writes[2] \in Terminal
    /\ writes # <<>> => extraction_status = writes[Len(writes)]
    /\ writes = <<>> => extraction_status = before
    /\ RunEnded => Len(writes) = 2

\* C8 witness: an invocation that found the status failed has run to its
\* end and left completed.
C8_Witness ==
    /\ RunEnded
    /\ before = "failed"
    /\ writes = <<"in_progress", "completed">>

\* C9 (as claimed; violated).  Every invocation that ran to its end began
\* with progress(starting) and emitted exactly one page_mapping event, before
\* every record event; a complete event occurs once and last.
StreamOrder ==
    /\ events # <<>> =>
          /\ events[1].type = "progress"
          /\ events[1].data = "starting"
    /\ \A k \in 1..Len(events) :
          events[k].type \in RecordEvents \cup {"complete"}
             => \E j \in 1..(k - 1) : events[j].type = "page_mapping"
    /\ Cardinality(EventsOfType("complete")) <= 1
    /\ \A k \in EventsOfType("complete") : k = Len(events)

C9_Original ==
    /\ StreamOrder
    /\ RunEnded => Cardinality(EventsOfType("page_mapping")) = 1

\* C9 (amended).  The first event is progress(starting); at most one
\* page_mapping event is emitted, and exactly one in a run that ends without
\* raising; it precedes every record event and the complete event; a
\* complete event occurs at most once and is the last event.
C9_StreamShape ==
    /\ StreamOrder
    /\ Cardinality(EventsOfType("page_mapping")) <= 1
    /\ (RunEnded /\ ~raised) => Cardinality(EventsOfType("page_mapping")) = 1

\* C9 witness: a run has ended with its complete event last, after the one
\* page_mapping event.
C9_Witness ==
    /\ RunEnded
    /\ ~raised
    /\ events[Len(events)].type = "complete"
    /\ events[Len(events) - 1].type = "page_mapping"

\* C13 (as claimed; violated).  Retry discipline of extract_page: the call
\* makes at most max_retries attempts; it returns at its first successful
\* attempt; when it raises, max_retries attempts have been made and the
\* failure raised is that of the last attempt: no failure leaves the method
\* without having been retried.
C13_RetryDiscipline ==
    call.op = "extract_page" =>
        /\ call.attempts <= max_retries
        /\ ~call.raised =>
              /\ call.attempts >= 1
              /\ call.script[call.attempts] = "ok"
              /\ \A i \in 1..(call.attempts - 1) : call.script[i] # "ok"
        /\ call.raised =>
              /\ call.attempts = max_retries
              /\ max_retries >= 1 => call.failure = call.script[max_retries]

\* C14 (as claimed; violated).  detect_all_page_numbers does not raise: for
\* a list with a position, whatever fails (the lookup of the handle, the
\* request, the parsing), the call returns a mapping with an entry for every
\* requested position, all-null or absent when something failed.
C14_DetectionNeverRaises ==
    (call.op = "detect_all_page_numbers" /\ call.indices # <<>>) =>
        /\ ~call.raised
        /\ \A i \in 1..Len(call.indices) :
              \E k \in 1..Len(call.mapping) : call.mapping[k][1] = call.indices[i]
        /\ call.failure # "none" =>
              \A k \in 1..Len(call.mapping) : call.mapping[k][2] \in {NoneMeta, NullMeta}

\* C15 (as claimed; violated).  Registration caching: once upload_file has
\* succeeded for a document, every later call for it returns the same
\* handle without an upload request; the cache changes only by a successful
\* upload, and a failed call leaves it unchanged.
CacheOnlyBySuccess ==
    call.op = "upload_file" =>
        /\ \A p \in Paths \ {call.path} : file_cache[p] = call.cache_before[p]
        /\ call.raised => file_cache = call.cache_before
        /\ file_cache[call.path] # call.cache_before[call.path] =>
              /\ ~call.raised
              /\ call.attempts >= 1
              /\ call.script[call.attempts] = "ok"
              /\ file_cache[call.path] = call.handle

C15_Original ==
    /\ (call.op = "upload_file" /\ call.registered_before # Null) =>
          /\ ~call.raised
          /\ call.handle = call.registered_before
          /\ call.attempts = 0
    /\ CacheOnlyBySuccess

\* C15 (amended).  While the cache holds a handle for a document (it has
\* not been cleared since the successful upload) and the file still exists
\* at its path, upload_file returns that handle without an upload request;
\* for a path with no file it raises before the cache is consulted, without
\* an upload request; the cache changes only by a successful upload, and a
\* failed call leaves it unchanged.
C15_RegistrationCaching ==
    /\ (call.op = "upload_file" /\ call.cache_before[call.path] # Null /\ call.exists) =>
          /\ ~call.raised
          /\ call.handle = call.cache_before[call.path]
          /\ call.attempts = 0
    /\ (call.op = "upload_file" /\ ~call.exists) =>
          /\ call.raised
          /\ call.attempts = 0
    /\ CacheOnlyBySuccess

\* C15 witness: a call for a document registered by an earlier call has
\* returned the handle of that registration without an upload request.
C15_Witness ==
    /\ call.op = "upload_file"
    /\ call.exists
    /\ call.registered_before # Null
    /\ call.cache_before[call.path] = call.registered_before
    /\ call.handle = call.registered_before
    /\ call.attempts = 0

\* The components bearing mark m, as positions of the store order, and
\* those of them on page p.
Bearing(m) == {k \in 1..Len(components) : components[k].mark = m}

BearingOn(m, p) == {k \in Bearing(m) : components[k].page = p}

\* The identifier the two-tier rule gives an endpoint with mark m on page p.
TwoTier(m, p, id) ==
    IF BearingOn(m, p) # {}
    THEN \E k \in BearingOn(m, p) : id = components[k].id
    ELSE IF Bearing(m) # {}
    THEN \E k \in Bearing(m) : id = components[k].id
    ELSE id = Null

\* C16.  Resolver two-tier lookup: after a run, every endpoint with a
\* non-empty mark m on page p holds the identifier of the component with
\* (m, p) if there is one, else that of a component bearing m if there is
\* one, else null; the from and the to endpoint independently.
C16_TwoTierLookup ==
    resolver_runs >= 1 =>
        \A i \in 1..Len(connections) :
            /\ connections[i].from_mark # NoMark =>
                  TwoTier(connections[i].from_mark, connections[i].page,
                          connections[i].from_id)
            /\ connections[i].to_mark # NoMark =>
                  TwoTier(connections[i].to_mark, connections[i].page,
                          connections[i].to_id)

\* C16 witness: after a run, the from endpoint of a connection holds the
\* component of its own page although an earlier component bears the same
\* mark, and its to endpoint, whose mark no component bears, is null.
C16_Witness ==
    /\ resolver_runs >= 1
    /\ \E i \in 1..Len(connections) :
          /\ connections[i].from_mark # NoMark
          /\ connections[i].to_mark # NoMark
          /\ \E k \in BearingOn(connections[i].from_mark, connections[i].page) :
                /\ connections[i].from_id = components[k].id
                /\ \E j \in Bearing(connections[i].from_mark) : j < k
          /\ Bearing(connections[i].to_mark) = {}
          /\ connections[i].to_id = Null

\* C17.  Resolver idempotence: a second run in a row over the same
\* components leaves every from and to identifier as the first run left it.
C17_Idempotence ==
    resolver_runs >= 2 =>
        /\ Len(connections) = Len(ids_before)
        /\ \A i \in 1..Len(connections) :
              /\ connections[i].from_id = ids_before[i].from_id
              /\ connections[i].to_id = ids_before[i].to_id

\* C17 witness: two runs have been made over a connection whose endpoint is
\* resolved by the mark-only key, two components bearing its mark.
C17_Witness ==
    /\ resolver_runs = 2
    /\ \E i \in 1..Len(connections) :
          /\ connections[i].from_mark # NoMark
          /\ BearingOn(connections[i].from_mark, connections[i].page) = {}
          /\ Cardinality(Bearing(connections[i].from_mark)) >= 2
          /\ connections[i].from_id # Null
          /\ connections[i].from_id = ids_before[i].from_id

\* C18.  Resolver tie-break: an endpoint whose mark several components bear,
\* none of them on the connection's page, holds the identifier of the first
\* of them in the store order.
FirstBearing(m) == CHOOSE k \in Bearing(m) : \A j \in Bearing(m) : k <= j

TieBreak(m, p, id) ==
    (Cardinality(Bearing(m)) >= 2 /\ BearingOn(m, p) = {})
        => id = components[FirstBearing(m)].id

C18_TieBreak ==
    resolver_runs >= 1 =>
        \A i \in 1..Len(connections) :
            /\ connections[i].from_mark # NoMark =>
                  TieBreak(connections[i].from_mark, connections[i].page,
                           connections[i].from_id)
            /\ connections[i].to_mark # NoMark =>
                  TieBreak(connections[i].to_mark, connections[i].page,
                           connections[i].to_id)

\* C18 witness: mark X is borne by the components of pages 0 and 2, first
\* and second in the store order, and a connection of page 1 referencing X
\* holds the identifier of the page-0 component.
C18_Witness ==
    /\ resolver_runs >= 1
    /\ Len(components) = 2
    /\ components[1].mark = "X" /\ components[1].page = 0
    /\ components[2].mark = "X" /\ components[2].page = 2
    /\ \E i \in 1..Len(connections) :
          /\ connections[i].to_mark = "X"
          /\ connections[i].page = 1
          /\ connections[i].to_id = components[1].id

\* The result's discrepancies of severity error.
Errors == {k \in 1..Len(validation.discrepancies) :
              validation.discrepancies[k].severity = "error"}

\* C19.  Validation status derivation, for validate_page and
\* validate_full_file: fail iff some discrepancy has severity error, warning
\* iff there is a discrepancy and none is an error, pass iff there is none;
\* a page result is never fail, and a document without components is fail
\* with an empty_extraction discrepancy of severity error.
C19_StatusDerivation ==
    validation.op \in {"validate_page", "validate_full_file"} =>
        /\ validation.status = "fail" <=> Errors # {}
        /\ validation.status = "warning" <=>
              (validation.discrepancies # <<>> /\ Errors = {})
        /\ validation.status = "pass" <=> validation.discrepancies = <<>>
        /\ validation.op = "validate_page" => validation.status # "fail"
        /\ (validation.op = "validate_full_file" /\ document.components = <<>>) =>
              /\ validation.status = "fail"
              /\ \E k \in Errors : validation.discrepancies[k].type = "empty_extraction"

\* C19 witness: a document without components but with a connection that
\* references a mark has been validated; the result holds an error and a
\* warning and is fail.
C19_Witness ==
    /\ validation.op = "validate_full_file"
    /\ document.components = <<>>
    /\ Errors # {}
    /\ \E k \in 1..Len(validation.discrepancies) :
          validation.discrepancies[k].severity = "warning"
    /\ validation.status = "fail"

\* The coord_out_of_bounds discrepancies of the result that speak of the
\* given coordinate of the given component.
CoordWarnings(id, about) ==
    {k \in 1..Len(validation.discrepancies) :
        /\ validation.discrepancies[k].type = "coord_out_of_bounds"
        /\ validation.discrepancies[k].severity = "warning"
        /\ validation.discrepancies[k].component = id
        /\ validation.discrepancies[k].about = about}

Outside(coordinate, limit) ==
    coordinate # None /\ (coordinate[1] < 0 \/ coordinate[1] > limit[1])

\* C20 (as claimed; violated).  Coordinate bounds check: for a page with a
\* stored width and height, the page result holds one coord_out_of_bounds
\* warning for every coordinate of a component of the page that lies
\* outside its range, whatever the other coordinate is, none for any other
\* coordinate, and its status is then warning.
C20_CoordinateBounds ==
    (/\ validation.op = "validate_page"
     /\ PageOf(document, validation.idx).present
     /\ ~Falsy(PageOf(document, validation.idx).width)
     /\ ~Falsy(PageOf(document, validation.idx).height))
        => \A k \in 1..Len(document.components) :
              LET comp == document.components[k]
                  page == PageOf(document, validation.idx)
              IN  comp.page = validation.idx =>
                     /\ Cardinality(CoordWarnings(comp.id, "x"))
                           = (IF Outside(comp.x, page.width) THEN 1 ELSE 0)
                     /\ Cardinality(CoordWarnings(comp.id, "y"))
                           = (IF Outside(comp.y, page.height) THEN 1 ELSE 0)
                     /\ (Outside(comp.x, page.width) \/ Outside(comp.y, page.height))
                           => validation.status = "warning"

\* C21 (as claimed; violated).  External cancellation: once a cancel request
\* has been answered while the extraction of a stream was in progress with
\* none of its pages begun, that extraction writes no status over cancelled:
\* the status the cancel request committed stays.
C21_ExternalCancel ==
    [][\A r \in cancelled_over :
          (streams'[r] # streams[r] /\ extraction_status = "cancelled")
              => extraction_status' = "cancelled"]_vars

\* The adapter calls the claim gives a run over the list pl: one
\* registration, one metadata detection, then one extract_page for every
\* occurrence of a position.
ClaimedCalls(pl) ==
    <<"upload_file", "detect_all_page_numbers">> \o [i \in 1..Len(pl) |-> "extract_page"]

\* C24 (as claimed; violated).  Setup ordering and call counts: a run in
\* which no collaborator raises registers the document once, calls
\* detect_all_page_numbers once, and then calls extract_page once for every
\* occurrence of a position in the list, in that order and with no other
\* adapter call.
C24_SetupCalls ==
    (RunEnded /\ NoCollaboratorFault) => calls = ClaimedCalls(pdf_page_indices)

\* What the document holds in the store.
Persisted == <<extraction_status, total_pages_processed, gemini_file_uri, store>>

\* C28.  Lazy, consumer-driven production: the call of extract_schematic
\* writes nothing to the store, calls no adapter and makes no event; after
\* it, every step that writes to the store or calls the adapter is the
\* answer to one request of the consumer and hands over exactly one event,
\* and no step hands over more than one.
C28_LazyProduction ==
    [][/\ pc' = "created" =>
             (Persisted' = Persisted /\ calls' = <<>> /\ events' = <<>>)
       /\ (runs' = runs /\ (Persisted' # Persisted \/ calls' # calls)) =>
             Len(events') = Len(events) + 1
       /\ runs' = runs => Len(events') <= Len(events) + 1]_vars

\* C28 witness: a second invocation has been made on a document the first
\* left completed, and the consumer has requested nothing yet.
C28_Witness ==
    /\ pc = "created"
    /\ runs = 2
    /\ extraction_status = "completed"
    /\ events = <<>>
    /\ calls = <<>>

\* C29 (as claimed; violated).  Outcome visibility after disconnect: whenever
\* the persisted status is in_progress, it is eventually something else,
\* also when the client of the stream has gone away.
C29_OutcomeVisible ==
    (extraction_status = "in_progress") ~> (extraction_status # "in_progress")

\* The streams whose extract_schematic has begun and has not ended: the
\* generator is suspended at one of its yields.
ActiveExtractions == {r \in Requests : streams[r].pc \in Running \cup {"error"}}

\* C30 (as claimed; violated).  Mutual exclusion: at no time are two
\* extract_schematic invocations active on the document; a stream requested
\* while the status is in_progress does not start a second one.
C30_MutualExclusion == Cardinality(ActiveExtractions) <= 1

\* The positions the response has an item for.
Answered(response) ==
    {response[k].pdf_page - 1 : k \in {j \in 1..Len(response) : response[j].pdf_page # Null}}

\* A detection call that returned the mapping of a parsed response.
DetectionSucceeded ==
    /\ call.op = "detect_all_page_numbers"
    /\ ~call.raised
    /\ call.failure = "none"

\* The keys of the returned mapping are the requested positions, each once.
ExactKeys ==
    /\ {call.mapping[i][1] : i \in 1..Len(call.mapping)}
          = {call.indices[i] : i \in 1..Len(call.indices)}
    /\ \A i, j \in 1..Len(call.mapping) :
          call.mapping[i][1] = call.mapping[j][1] => i = j

\* C31 (as claimed; violated).  Metadata mapping completeness: on a
\* successful detection the returned mapping has exactly the requested
\* positions as keys, and a requested position the response omitted maps to
\* an entry with every field null and confidence zero.
C31_MappingComplete ==
    DetectionSucceeded =>
        /\ ExactKeys
        /\ \A i \in 1..Len(call.mapping) :
              call.mapping[i][1] \notin Answered(call.response) =>
                  call.mapping[i][2] = [present |-> TRUE, num |-> Null, conf |-> 0]

\* A connection row without its two component identifiers.
WithoutIds(conn) == [conn EXCEPT !.from_id = Null, !.to_id = Null]

\* C32.  Resolver frame: before the first run every connection has null
\* component identifiers, and a run of resolve_component_references changes
\* nothing but the from/to identifiers of the document's connections: their
\* raw marks and other fields, the Component rows and the rows of the other
\* document stay as they are.
C32_ResolverFrame ==
    /\ [](resolver_runs = 0 =>
             \A i \in 1..Len(connections) : connections[i] = WithoutIds(connections[i]))
    /\ [][/\ components' = components
          /\ foreign' = foreign
          /\ Len(connections') = Len(connections)
          /\ \A i \in 1..Len(connections) :
                WithoutIds(connections'[i]) = WithoutIds(connections[i])]_vars

\* C32 witness: a run has written an identifier on a connection of the
\* document while the other document holds an unresolved connection whose
\* mark and page the run has met.
C32_Witness ==
    /\ resolver_runs >= 1
    /\ \E i \in 1..Len(connections) :
          /\ connections[i].from_mark = "X"
          /\ connections[i].page = 0
          /\ connections[i].from_id # Null
    /\ foreign.connections # <<>>
    /\ foreign.connections[1].from_id = Null

\* The connections of the validated document that are not flagged external
\* and have a from or to mark no component of the document bears.
OrphanedConnections ==
    LET marks == {document.components[k].mark : k \in 1..Len(document.components)}
        unmatched(mark) == mark # NoMark /\ mark \notin marks
    IN  {n \in 1..Len(document.connections) :
            /\ ~document.connections[n].is_external
            /\ \/ unmatched(document.connections[n].from_mark)
               \/ unmatched(document.connections[n].to_mark)}

\* The counts of the orphaned_connections discrepancies of the result.
ReportedOrphans ==
    {validation.discrepancies[k].count :
        k \in {j \in 1..Len(validation.discrepancies) :
                  validation.discrepancies[j].type = "orphaned_connections"}}

\* C33 (as claimed; violated).  Orphan count: the document-level result
\* reports the number of orphaned connections, each counted once, and
\* reports none when there is none.
C33_OrphanCount ==
    validation.op = "validate_full_file" =>
        ReportedOrphans = IF OrphanedConnections = {} THEN {}
                          ELSE {Cardinality(OrphanedConnections)}

\* A ratio capped at 1.0.
CappedRatio(extracted, expected) ==
    IF extracted > expected THEN <<1, 1>> ELSE Fraction(extracted, expected)

\* The confidence the claim gives a page result: the mean of the ratios,
\* each capped before averaging, for the kinds with an expected count.
ClaimedConfidence ==
    LET e == validation.expected[1]
        c == Len(ComponentsOn(document, validation.idx))
        k == Len(ConnectionsOn(document, validation.idx))
        ratios == (IF e.components > 0 THEN <<CappedRatio(c, e.components)>> ELSE <<>>)
                  \o (IF e.connections > 0 THEN <<CappedRatio(k, e.connections)>> ELSE <<>>)
    IN  IF ratios = <<>> THEN Fraction(9, 10) ELSE Mean(ratios)

\* C34 (as claimed; violated).  Page-level confidence: with expected counts
\* it is the mean of the completeness ratios, each capped at 1.0 before
\* averaging; without them it is 0.9; it always lies in [0, 1].
C34_PageConfidence ==
    validation.op = "validate_page" =>
        /\ validation.confidence[1] >= 0
        /\ validation.confidence[1] <= validation.confidence[2]
        /\ validation.expected = None => validation.confidence = Fraction(9, 10)
        /\ validation.expected # None => validation.confidence = ClaimedConfidence


\* d of the schedule for attempt index i: min(base_delay * 2^i, max_delay).
ClaimedDelay(i) ==
    LET exponential == RETRY_BASE_DELAY * (2 ^ i)
    IN  IF exponential <= RETRY_MAX_DELAY THEN exponential ELSE RETRY_MAX_DELAY

\* delay = d + j with 0 <= j <= d/10.
InSchedule(delay, i) ==
    /\ ClaimedDelay(i) <= delay
    /\ 10 * (delay - ClaimedDelay(i)) <= ClaimedDelay(i)

\* C35: the delay _calculate_backoff returns for attempt index i is d + j
\* with d = min(base_delay * 2^i, max_delay) and 0 <= j <= d/10; d does not
\* decrease with i, no delay exceeds 1.1 * max_delay, and extract_page
\* sleeps once after every attempt but its last, the k-th sleep taking the
\* delay of index k - 1, and never after the final attempt.
C35_BackoffSchedule ==
    /\ call.op = "calculate_backoff" =>
          /\ InSchedule(call.delays[1], call.attempt)
          /\ 10 * call.delays[1] <= 11 * RETRY_MAX_DELAY
          /\ ClaimedDelay(call.attempt) <= ClaimedDelay(call.attempt + 1)
    /\ call.op = "extract_page" =>
          /\ Len(call.delays) = (IF call.attempts = 0 THEN 0 ELSE call.attempts - 1)
          /\ \A k \in 1..Len(call.delays) :
                /\ InSchedule(call.delays[k], k - 1)
                /\ 10 * call.delays[k] <= 11 * RETRY_MAX_DELAY
                /\ k - 1 < max_retries - 1

\* A capped delay with its whole jitter has been returned.
C35_Witness ==
    /\ call.op = "calculate_backoff"
    /\ RETRY_BASE_DELAY * (2 ^ call.attempt) > RETRY_MAX_DELAY
    /\ 10 * call.delays[1] = 11 * RETRY_MAX_DELAY


\* C39 (as claimed; violated).  A cancel() issued between the call of
\* extract_schematic and the consumer's first request is honoured: the run
\* processes no page and ends with status cancelled.
C39_EarlyCancelHonoured ==
    (RunEnded /\ NoCollaboratorFault /\ cancel_at = "lost")
        => (extraction_status = "cancelled" /\ store.pages = <<>>)


\* upload_file is running.
InUpload == {"uploading", "waiting", "polling"}

\* upload_file returned a handle or raised.
UploadEnded == {"returned", "raised"}

\* C40 (as claimed; violated).  Registration terminates: a call of
\* upload_file makes at most max_retries upload attempts and, every remote
\* call returning, eventually returns a handle or raises, whatever states
\* the remote service reports for the uploaded file.
C40_RegistrationTerminates ==
    /\ [](call.op = "upload_file" => call.attempts <= max_retries)
    /\ (call.at \in InUpload) ~> (call.at \in UploadEnded)

====
